---- MODULE Spec2Model ----
(***************************************************************************)
(* Last Block Standing (LBS.py): the board with its gravity rule, the      *)
(* pruned game tree with its outcome classes, and the analyze / play       *)
(* loops of main().                                                        *)
(*                                                                         *)
(* A board is a sequence of rows, each a sequence of cells "B", "R", "G"   *)
(* or "-"; rows and columns are numbered from 1 here and from 0 in the     *)
(* source.  A position (an LBS object) is a record of x, y, board,         *)
(* left_children, right_children and outcome_class.  The children sets of  *)
(* the source hold objects compared by identity; they are sequences here,  *)
(* in the order of insertion, and an iteration over such a set may start   *)
(* with any of its members.                                                *)
(***************************************************************************)
EXTENDS Integers, Sequences, FiniteSets

VARIABLES pc, game, game_copy, gameType, lastQuery,
          updated, passes, calls, before, first,
          heap, rows, stack, result, queryLeft

\* The objects, the row lists and the call stack of a create_tree followed
\* step by step, and the argument and the result of a move query.
buildVars == <<heap, rows, stack, result, queryLeft>>

vars == <<pc, game, game_copy, gameType, lastQuery,
          updated, passes, calls, before, first, buildVars>>

\* Root boards of the tree and play specification have at most MaxCells cells.
MaxCells == 4

\* Boards of the gravity specification have at most MaxGravityCells cells.
MaxGravityCells == 6

Cells == {"B", "R", "G", "-"}

left_blocks_G_only == {"G"}

left_blocks == {"B", "G"}

right_blocks_R_only == {"R"}

right_blocks == {"R", "G"}

None == "None"

NoBoard == <<>>

Dims(n) == {d \in (1..n) \X (1..n) : d[1] * d[2] <= n}

BoardsOf(w, h) == [1..h -> [1..w -> Cells]]

\* LBS.__init__
LBS(x, y, board) ==
  [x |-> x, y |-> y, board |-> board,
   left_children |-> <<>>, right_children |-> <<>>, outcome_class |-> None]

NoGame == LBS(0, 0, NoBoard)

\* No tree is being followed step by step and no query was made.
NoBuild ==
  /\ heap = <<>>
  /\ rows = <<>>
  /\ stack = <<>>
  /\ result = NoBoard
  /\ queryLeft = FALSE

(***************************************************************************)
(* Gravity                                                                 *)
(***************************************************************************)

is_full_row_first_only(self, row) == self.board[row][1] # "-"

is_full_row(self, row) == \A col \in 1..self.x : self.board[row][col] # "-"

is_full_col_first_only(self, col) == self.board[1][col] # "-"

is_full_col(self, col) == \A row \in 1..self.y : self.board[row][col] # "-"

RowOf(self, k) == (k \div self.x) + 1

ColOf(self, k) == (k % self.x) + 1

SetCell(board, row, col, v) == [board EXCEPT ![row][col] = v]

\* The test of line 34 on the board as it is when the scan reaches the cell.
Unsupported(self, row, col) ==
  /\ self.board[row][col] # "-"
  /\ ~ is_full_row(self, row)
  /\ ~ is_full_col(self, col)

ClearedCell_underscore == "_"

\* The value line 35 writes.
ClearedCell == "-"

FlagOnNonFullRow(self, row, col) ==
  self.board[row][col] # "-" /\ ~ is_full_row(self, row)

\* Whether the scan of a cell sets `updated` (line 36, inside the if of line 34).
SetsUpdated(self, row, col) == Unsupported(self, row, col)

\* One pass of the two for loops (lines 32-36), in place and row-major, from
\* cell k on: the position and the flag after the pass.
RECURSIVE ScanFrom(_, _, _)
ScanFrom(self, k, upd) ==
  IF k >= self.x * self.y
  THEN [self |-> self, updated |-> upd]
  ELSE LET row == RowOf(self, k)
           col == ColOf(self, k)
           flag == upd \/ SetsUpdated(self, row, col)
       IN IF Unsupported(self, row, col)
          THEN ScanFrom([self EXCEPT !.board = SetCell(@, row, col, ClearedCell)],
                        k + 1, flag)
          ELSE ScanFrom(self, k + 1, flag)

ScanPass(self) == ScanFrom(self, 0, FALSE)

\* One pass that clears every cell whose row or whose column is not full.
RECURSIVE ScanFromEither(_, _)
ScanFromEither(self, k) ==
  IF k >= self.x * self.y
  THEN self
  ELSE LET row == RowOf(self, k)
           col == ColOf(self, k)
       IN IF /\ self.board[row][col] # "-"
             /\ (~ is_full_row(self, row) \/ ~ is_full_col(self, col))
          THEN ScanFromEither([self EXCEPT !.board = SetCell(@, row, col, ClearedCell)],
                              k + 1)
          ELSE ScanFromEither(self, k + 1)

\* The while loop of drop_blocks (lines 29-36) as a function of the position.
RECURSIVE DropLoop(_)
DropLoop(self) ==
  LET p == ScanPass(self)
  IN IF p.updated THEN DropLoop(p.self) ELSE p.self

drop_blocks_one_pass_either(self) == ScanFromEither(self, 0)

drop_blocks(self) == DropLoop(self)

(***************************************************************************)
(* The game tree and its outcome classes                                   *)
(***************************************************************************)

left_can_win_LN(self) ==
  \E i \in 1..Len(self.left_children) :
    self.left_children[i].outcome_class \in {"L", "N"}

left_can_win(self) ==
  \E i \in 1..Len(self.left_children) :
    self.left_children[i].outcome_class \in {"L", "P"}

right_can_win(self) ==
  \E i \in 1..Len(self.right_children) :
    self.right_children[i].outcome_class \in {"R", "P"}

left_can_move(self) ==
  \E row \in 1..self.y : \E col \in 1..self.x : self.board[row][col] \in {"B", "G"}

right_can_move(self) ==
  \E row \in 1..self.y : \E col \in 1..self.x : self.board[row][col] \in {"R", "G"}

define_outcome_class_default_N(self) ==
  LET l == left_can_win(self)
      r == right_can_win(self)
  IN [self EXCEPT !.outcome_class =
        IF l /\ r THEN "N" ELSE IF l THEN "L" ELSE IF r THEN "R" ELSE "N"]

define_outcome_class_swapped(self) ==
  LET l == left_can_win(self)
      r == right_can_win(self)
  IN [self EXCEPT !.outcome_class =
        IF l /\ r THEN "N" ELSE IF l THEN "R" ELSE IF r THEN "L" ELSE "P"]

define_outcome_class(self) ==
  LET l == left_can_win(self)
      r == right_can_win(self)
  IN [self EXCEPT !.outcome_class =
        IF l /\ r THEN "N" ELSE IF l THEN "L" ELSE IF r THEN "R" ELSE "P"]

NewChild_no_drop(self, row, col) ==
  LBS(self.x, self.y, SetCell(self.board, row, col, "-"))

\* lines 70-73 (78-81): the copy of the board with the cell cleared and
\* gravity applied, as a new position.
NewChild(self, row, col) ==
  drop_blocks(LBS(self.x, self.y, SetCell(self.board, row, col, "-")))

LeftGuard_no_prune(self, row, col) == self.board[row][col] \in left_blocks

\* line 69
LeftGuard(self, row, col) ==
  self.board[row][col] \in left_blocks /\ ~ left_can_win(self)

RightGuard_left_test(self, row, col) ==
  self.board[row][col] \in right_blocks /\ ~ left_can_win(self)

\* line 77
RightGuard(self, row, col) ==
  self.board[row][col] \in right_blocks /\ ~ right_can_win(self)

EarlyReturn_either(self) == left_can_win(self) \/ right_can_win(self)

\* line 85
EarlyReturn(self) == left_can_win(self) /\ right_can_win(self)

\* create_tree: the two for loops from cell k on (lines 67-86).  A child is
\* built, classified and only then added to its set.
RECURSIVE create_tree(_), CreateFrom(_, _)
CreateFrom(self, k) ==
  IF k >= self.x * self.y
  THEN self
  ELSE LET row == RowOf(self, k)
           col == ColOf(self, k)
           s1 == IF LeftGuard(self, row, col)
                 THEN [self EXCEPT !.left_children =
                         Append(@, define_outcome_class(create_tree(NewChild(self, row, col))))]
                 ELSE self
           s2 == IF RightGuard(s1, row, col)
                 THEN [s1 EXCEPT !.right_children =
                         Append(@, define_outcome_class(create_tree(NewChild(s1, row, col))))]
                 ELSE s1
       IN IF EarlyReturn(s2) THEN s2 ELSE CreateFrom(s2, k + 1)

create_tree(self) == CreateFrom(self, 0)

Range(seq) == {seq[i] : i \in 1..Len(seq)}

find_winning_move_any_child(self, isLeft) ==
  LET children == IF isLeft THEN Range(self.left_children)
                  ELSE Range(self.right_children)
  IN IF children = {} THEN {NoBoard} ELSE {c.board : c \in children}

\* What find_winning_move may return: the board of the first child of a
\* favourable class in the iteration order of the set, or nothing.
find_winning_move(self, isLeft) ==
  LET wins == IF isLeft
              THEN {c \in Range(self.left_children) : c.outcome_class \in {"L", "P"}}
              ELSE {c \in Range(self.right_children) : c.outcome_class \in {"R", "P"}}
  IN IF wins = {} THEN {NoBoard} ELSE {c.board : c \in wins}

\* What find_legal_move may return: the board of the child the iteration
\* starts with, or nothing.
find_legal_move(self, isLeft) ==
  LET children == IF isLeft THEN Range(self.left_children)
                  ELSE Range(self.right_children)
  IN IF children = {} THEN {NoBoard} ELSE {c.board : c \in children}

(***************************************************************************)
(* main(): analyze, and play against the computer or an opponent.  The     *)
(* board read from the file is any board of at most MaxCells cells, with   *)
(* its own width and height.                                               *)
(***************************************************************************)

RootBoards ==
  UNION {{LBS(d[1], d[2], b) : b \in BoardsOf(d[1], d[2])} : d \in Dims(MaxCells)}

Init ==
  /\ pc = "menu"
  /\ game = NoGame
  /\ game_copy = NoGame
  /\ gameType = "none"
  /\ lastQuery = "none"
  /\ updated = FALSE
  /\ passes = 0
  /\ calls = 0
  /\ before = NoBoard
  /\ first = NoBoard
  /\ NoBuild

\* lines 334-351
Analyze ==
  /\ pc = "menu"
  /\ \E g \in RootBoards : game' = define_outcome_class(create_tree(g))
  /\ gameType' = "analyze"
  /\ pc' = "analyzed"
  /\ UNCHANGED <<game_copy, lastQuery, updated, passes, calls, before, first, buildVars>>

\* lines 353-356, and back to the prompt of line 189; the game of the round
\* that ended is not read again.
Report ==
  /\ pc = "analyzed"
  /\ pc' = "menu"
  /\ game' = NoGame
  /\ gameType' = "none"
  /\ UNCHANGED <<game_copy, lastQuery, updated, passes, calls, before, first, buildVars>>

\* lines 190-206 and 240-265: a game starts; in "first" the user moves first
\* (left) against the computer, in "second" the computer does.
Play ==
  /\ pc = "menu"
  /\ game' \in RootBoards
  /\ gameType' \in {"opponent", "first", "second"}
  /\ pc' = "left"
  /\ lastQuery' = "none"
  /\ UNCHANGED <<game_copy, updated, passes, calls, before, first, buildVars>>

\* lines 208-211, 267-273: the game is over, back to the prompt of line 189
LeftCannotMove ==
  /\ pc = "left"
  /\ ~ left_can_move(game)
  /\ pc' = "menu"
  /\ game' = NoGame
  /\ game_copy' = NoGame
  /\ gameType' = "none"
  /\ lastQuery' = "none"
  /\ UNCHANGED <<updated, passes, calls, before, first, buildVars>>

\* lines 214-223, 277-286: the user removes a cell that is not '-' or 'R'
UserLeft ==
  /\ pc = "left"
  /\ left_can_move(game)
  /\ gameType \in {"opponent", "first"}
  /\ \E row \in 1..game.y : \E col \in 1..game.x :
       /\ game.board[row][col] \notin {"-", "R"}
       /\ game' = drop_blocks([game EXCEPT !.board = SetCell(@, row, col, "-")])
  /\ pc' = "right"
  /\ lastQuery' = "none"
  /\ UNCHANGED <<game_copy, gameType, updated, passes, calls, before, first, buildVars>>

\* lines 287-298
ComputerLeft ==
  /\ pc = "left"
  /\ left_can_move(game)
  /\ gameType = "second"
  /\ \E copy \in {define_outcome_class(create_tree(LBS(game.x, game.y, game.board)))} :
        /\ game_copy' = copy
        /\ IF game.outcome_class \in {"N", "L"}
           THEN /\ \E b \in find_winning_move(copy, TRUE) : game' = [game EXCEPT !.board = b]
                /\ lastQuery' = "find_winning_move"
           ELSE /\ \E b \in find_legal_move(copy, TRUE) : game' = [game EXCEPT !.board = b]
                /\ lastQuery' = "find_legal_move"
  /\ pc' = "right"
  /\ UNCHANGED <<gameType, updated, passes, calls, before, first, buildVars>>

\* lines 224-227, 299-305: the game is over, back to the prompt of line 189
RightCannotMove ==
  /\ pc = "right"
  /\ ~ right_can_move(game)
  /\ pc' = "menu"
  /\ game' = NoGame
  /\ game_copy' = NoGame
  /\ gameType' = "none"
  /\ lastQuery' = "none"
  /\ UNCHANGED <<updated, passes, calls, before, first, buildVars>>

\* lines 230-239, 309-318: the user removes a cell that is not '-' or 'B'
UserRight ==
  /\ pc = "right"
  /\ right_can_move(game)
  /\ gameType \in {"opponent", "second"}
  /\ \E row \in 1..game.y : \E col \in 1..game.x :
       /\ game.board[row][col] \notin {"-", "B"}
       /\ game' = drop_blocks([game EXCEPT !.board = SetCell(@, row, col, "-")])
  /\ pc' = "left"
  /\ lastQuery' = "none"
  /\ UNCHANGED <<game_copy, gameType, updated, passes, calls, before, first, buildVars>>

\* lines 319-330
ComputerRight ==
  /\ pc = "right"
  /\ right_can_move(game)
  /\ gameType = "first"
  /\ \E copy \in {define_outcome_class(create_tree(LBS(game.x, game.y, game.board)))} :
        /\ game_copy' = copy
        /\ IF game.outcome_class \in {"N", "R"}
           THEN /\ \E b \in find_winning_move(copy, FALSE) : game' = [game EXCEPT !.board = b]
                /\ lastQuery' = "find_winning_move"
           ELSE /\ \E b \in find_legal_move(copy, FALSE) : game' = [game EXCEPT !.board = b]
                /\ lastQuery' = "find_legal_move"
  /\ pc' = "left"
  /\ UNCHANGED <<gameType, updated, passes, calls, before, first, buildVars>>

Next ==
  \/ Analyze
  \/ Report
  \/ Play
  \/ LeftCannotMove
  \/ UserLeft
  \/ ComputerLeft
  \/ RightCannotMove
  \/ UserRight
  \/ ComputerRight

Spec == Init /\ [][Next]_vars

(***************************************************************************)
(* Properties of the tree, the classes and the computer's moves            *)
(***************************************************************************)

NonEmptyCells(board) ==
  {rc \in (1..Len(board)) \X (1..Len(board[1])) : board[rc[1]][rc[2]] # "-"}

RowFull(board, row) == \A c \in 1..Len(board[row]) : board[row][c] # "-"

ColFull(board, col) == \A r \in 1..Len(board) : board[r][col] # "-"

Analysed == pc = "analyzed"

\* Every position of a tree.
RECURSIVE Positions(_)
Positions(self) ==
  {self} \cup UNION {Positions(c) : c \in Range(self.left_children)}
         \cup UNION {Positions(c) : c \in Range(self.right_children)}

Owned(side) == IF side = "left" THEN {"B", "G"} ELSE {"R", "G"}

Other(side) == IF side = "left" THEN "right" ELSE "left"

\* Every position one legal move of `side` leads to: a cell of the side
\* removed, gravity applied.
Successors(self, side) ==
  {NewChild(self, rc[1], rc[2]) :
     rc \in {q \in (1..self.y) \X (1..self.x) : self.board[q[1]][q[2]] \in Owned(side)}}

\* The class of a position when every legal child of every position is built
\* and the rule of define_outcome_class is applied bottom-up.
RECURSIVE ExhaustiveClass(_)
ExhaustiveClass(self) ==
  LET leftClasses == {ExhaustiveClass(c) : c \in Successors(self, "left")}
      rightClasses == {ExhaustiveClass(c) : c \in Successors(self, "right")}
  IN IF leftClasses \cap {"L", "P"} # {}
     THEN (IF rightClasses \cap {"R", "P"} # {} THEN "N" ELSE "L")
     ELSE (IF rightClasses \cap {"R", "P"} # {} THEN "R" ELSE "P")

\* Normal play: `player` can force a win on this position when `mover` is to
\* move; whoever has no cell to remove on their turn loses.
RECURSIVE Wins(_, _, _)
Wins(player, self, mover) ==
  IF mover = player
  THEN \E c \in Successors(self, player) : Wins(player, c, Other(player))
  ELSE \A c \in Successors(self, mover) : Wins(player, c, player)

Root(self) == LBS(self.x, self.y, self.board)

\* C1: the class create_tree (with its pruning and early return) and
\* define_outcome_class give a board is the class obtained by building every
\* legal child of every position and applying the same rule bottom-up.
C1_PruningEquivalence ==
  Analysed => game.outcome_class = ExhaustiveClass(Root(game))

\* An analysed position on which pruning skipped a legal move of each side.
C1_Witness ==
  /\ Analysed
  /\ Len(game.left_children) < Cardinality(Successors(Root(game), "left"))
  /\ Len(game.right_children) < Cardinality(Successors(Root(game), "right"))

\* C2: under normal play the class is L iff left can force a win whoever moves
\* first, R iff right can, N iff whoever moves first can force a win, P iff
\* whoever moves first loses.
C2_ClassMeansNormalPlay ==
  Analysed =>
    LET b == Root(game)
        k == game.outcome_class
    IN /\ (k = "L") <=> (Wins("left", b, "left") /\ Wins("left", b, "right"))
       /\ (k = "R") <=> (Wins("right", b, "left") /\ Wins("right", b, "right"))
       /\ (k = "N") <=> (Wins("left", b, "left") /\ Wins("right", b, "right"))
       /\ (k = "P") <=> (Wins("right", b, "left") /\ Wins("left", b, "right"))

\* An analysed position of class P on which both sides still have moves.
C2_Witness ==
  /\ Analysed
  /\ game.outcome_class = "P"
  /\ left_can_move(game)
  /\ right_can_move(game)

\* The boards of the children of the computer's side that win for it.
WinningBoards(self, isLeft) ==
  IF isLeft
  THEN {c.board : c \in {d \in Range(self.left_children) : d.outcome_class \in {"L", "P"}}}
  ELSE {c.board : c \in {d \in Range(self.right_children) : d.outcome_class \in {"R", "P"}}}

\* C3: on a computer turn, whenever the fresh tree (game_copy) holds a winning
\* move for the computer's side, the board the computer moves to is the board
\* of a winning child.
C3_ComputerPlaysWinningMove ==
  lastQuery # "none" =>
    LET wins == WinningBoards(game_copy, gameType = "second")
    IN wins # {} => game.board \in wins

\* C4: on every position of an analysed tree the class is one of L, R, N, P;
\* it is N iff some left child has class L or P and some right child has class
\* R or P, L iff only the first holds, R iff only the second, P iff neither.
C4_ClassDeterminedByChildren ==
  Analysed =>
    \A p \in Positions(game) :
      LET l == \E c \in Range(p.left_children) : c.outcome_class \in {"L", "P"}
          r == \E c \in Range(p.right_children) : c.outcome_class \in {"R", "P"}
          k == p.outcome_class
      IN /\ k \in {"L", "R", "N", "P"}
         /\ (k = "N") <=> (l /\ r)
         /\ (k = "L") <=> (l /\ ~ r)
         /\ (k = "R") <=> (~ l /\ r)
         /\ (k = "P") <=> (~ l /\ ~ r)

\* An analysed tree in which all four classes occur.
C4_Witness ==
  /\ Analysed
  /\ {p.outcome_class : p \in Positions(game)} = {"L", "R", "N", "P"}

SingleShared == Analysed /\ game.x = 1 /\ game.y = 1 /\ game.board = <<<<"G">>>>

\* C9 as stated: a 1x1 board containing G classifies as Zero (P).
C9_SingleSharedCellZero == SingleShared => game.outcome_class = "P"

\* C9 as amended: a 1x1 board containing G classifies as Fuzzy (N): either
\* side removes the cell and leaves the other without a move.
C9_SingleSharedCellFuzzy == SingleShared => game.outcome_class = "N"

\* The 1x1 board G analysed, with its one left child and its one right child.
C9_Witness ==
  /\ SingleShared
  /\ Len(game.left_children) = 1
  /\ Len(game.right_children) = 1

SingleLeft == Analysed /\ game.x = 1 /\ game.y = 1 /\ game.board = <<<<"B">>>>

\* C11: a 1x1 board containing B classifies as Left (L).
C11_SingleLeftCellLeft == SingleLeft => game.outcome_class = "L"

\* The 1x1 board B analysed: one left child, the empty board, and no right child.
C11_Witness ==
  /\ SingleLeft
  /\ Len(game.left_children) = 1
  /\ game.left_children[1].board = <<<<"-">>>>
  /\ game.right_children = <<>>

\* C10: a position on which neither left_can_move() nor right_can_move() holds
\* (one with no B, R or G cell) gets no children and is classified P.
C10_TerminalIsZero ==
  Analysed =>
    \A p \in Positions(game) :
      /\ (~ left_can_move(p) /\ ~ right_can_move(p)) <=> NonEmptyCells(p.board) = {}
      /\ (~ left_can_move(p) /\ ~ right_can_move(p)) =>
           /\ p.left_children = <<>>
           /\ p.right_children = <<>>
           /\ p.outcome_class = "P"

\* An empty 2x2 board analysed as the root.
C10_Witness ==
  /\ Analysed
  /\ game.x = 2
  /\ game.y = 2
  /\ NonEmptyCells(game.board) = {}
  /\ game.outcome_class = "P"

Favourable(side) == IF side = "left" THEN {"L", "P"} ELSE {"R", "P"}

ChildrenOf(p, side) == IF side = "left" THEN p.left_children ELSE p.right_children

\* C16: no child of a side is generated once that side can win, so in each
\* of left_children and right_children at most one child has a class
\* favourable to its side (L/P for left, R/P for right), and that child is the
\* last one added.
C16_PruningRule ==
  Analysed =>
    \A p \in Positions(game) : \A side \in {"left", "right"} :
      LET ch == ChildrenOf(p, side)
      IN \A i \in 1..Len(ch) :
           ch[i].outcome_class \in Favourable(side) => i = Len(ch)

\* An analysed position where each side got a winning child after a losing one.
C16_Witness ==
  /\ Analysed
  /\ \A side \in {"left", "right"} :
       LET ch == ChildrenOf(game, side)
       IN /\ Len(ch) >= 2
          /\ ch[Len(ch)].outcome_class \in Favourable(side)

\* The cells of a side on a board, in the order of the scan, as (row, col).
CellsInOrder(p, side) ==
  LET all == [k \in 1..(p.x * p.y) |-> <<RowOf(p, k - 1), ColOf(p, k - 1)>>]
      Mine(rc) == p.board[rc[1]][rc[2]] \in Owned(side)
  IN SelectSeq(all, Mine)

\* C17: the children of a side are the successors by the side's own cells, in
\* the order of the scan: the i-th child has the parent's board with the i-th
\* cell of the side (B or G for left, R or G for right) emptied and
\* drop_blocks applied; none comes from an empty cell or a cell of the other
\* side only.
C17_ChildrenAreLegalSuccessors ==
  Analysed =>
    \A p \in Positions(game) : \A side \in {"left", "right"} :
      LET ch == ChildrenOf(p, side)
          cells == CellsInOrder(p, side)
      IN /\ Len(ch) <= Len(cells)
         /\ \A i \in 1..Len(ch) :
              /\ ch[i].x = p.x
              /\ ch[i].y = p.y
              /\ ch[i].board =
                   drop_blocks(LBS(p.x, p.y,
                                   SetCell(p.board, cells[i][1], cells[i][2], "-"))).board

\* An analysed 2x2 position with a child on whose board gravity cleared cells
\* beside the one removed.
C17_Witness ==
  /\ Analysed
  /\ game.x = 2
  /\ game.y = 2
  /\ \E i \in 1..Len(game.left_children) :
       Cardinality(NonEmptyCells(game.left_children[i].board))
         < Cardinality(NonEmptyCells(game.board)) - 1
  /\ game.right_children # <<>>

(***************************************************************************)
(* The move queries on a built and classified position: a caller analyses  *)
(* a board and asks for a winning or a legal move of one side.             *)
(***************************************************************************)

\* find_winning_move(isLeft) on the analysed position
QueryWinning ==
  /\ pc = "analyzed"
  /\ queryLeft' \in BOOLEAN
  /\ result' \in find_winning_move(game, queryLeft')
  /\ lastQuery' = "find_winning_move"
  /\ pc' = "queried"
  /\ UNCHANGED <<game, game_copy, gameType, updated, passes, calls, before, first,
                 heap, rows, stack>>

\* find_legal_move(isLeft) on the analysed position
QueryLegal ==
  /\ pc = "analyzed"
  /\ queryLeft' \in BOOLEAN
  /\ result' \in find_legal_move(game, queryLeft')
  /\ lastQuery' = "find_legal_move"
  /\ pc' = "queried"
  /\ UNCHANGED <<game, game_copy, gameType, updated, passes, calls, before, first,
                 heap, rows, stack>>

NextQuery == Analyze \/ QueryWinning \/ QueryLegal

SpecQuery == Init /\ [][NextQuery]_vars

QuerySide == IF queryLeft THEN "left" ELSE "right"

Queried(fn) == pc = "queried" /\ lastQuery = fn

\* C12: find_winning_move(side) returns the board of a child of the side whose
\* class is favourable to it (L or P for left, R or P for right), and returns
\* nothing exactly when the side's set holds no such child, that is exactly
\* when left_can_win() (resp. right_can_win()) is false.
C12_FindWinningMove ==
  Queried("find_winning_move") =>
    LET fav == {c \in Range(ChildrenOf(game, QuerySide)) :
                  c.outcome_class \in Favourable(QuerySide)}
    IN /\ (result = NoBoard) <=> (fav = {})
       /\ (result # NoBoard) => result \in {c.board : c \in fav}
       /\ (result = NoBoard) <=>
            ~ (IF queryLeft THEN left_can_win(game) ELSE right_can_win(game))

\* A winning move was returned from a set that also holds a losing child.
C12_Witness ==
  /\ Queried("find_winning_move")
  /\ result # NoBoard
  /\ \E c \in Range(ChildrenOf(game, QuerySide)) :
       c.outcome_class \notin Favourable(QuerySide)

\* C13: find_legal_move(side) on a position built by create_tree returns
\* nothing if and only if the side has no cell of its own on the board
\* (left_can_move() resp. right_can_move() is false): pruning never leaves a
\* side that has a legal cell with an empty child set.
C13_FindLegalMove ==
  Queried("find_legal_move") =>
    /\ (result = NoBoard) <=>
         ~ (IF queryLeft THEN left_can_move(game) ELSE right_can_move(game))
    /\ (result = NoBoard) <=> (CellsInOrder(game, QuerySide) = <<>>)
    /\ (result # NoBoard) => result \in {c.board : c \in Range(ChildrenOf(game, QuerySide))}

\* A legal move was returned on a position where pruning skipped cells of the
\* side.
C13_Witness ==
  /\ Queried("find_legal_move")
  /\ result # NoBoard
  /\ Len(ChildrenOf(game, QuerySide)) < Len(CellsInOrder(game, QuerySide))

(***************************************************************************)
(* The analysis of lines 348-351 call by call.  `heap` holds the LBS        *)
(* objects in the order of their construction, an object being its index;  *)
(* the board of an object is the list of its row lists, each an index into  *)
(* `rows`, so that two boards share storage when they hold the same row.    *)
(* `stack` holds the calls of create_tree in progress, the innermost last.  *)
(* The fields creates and classifies of an object count the calls of        *)
(* create_tree and of define_outcome_class made on it.                      *)
(***************************************************************************)

\* LBS.__init__, the board given as its row lists
LBSObject(x, y, board) ==
  [x |-> x, y |-> y, board |-> board,
   left_children |-> <<>>, right_children |-> <<>>, outcome_class |-> None,
   creates |-> 0, classifies |-> 0]

\* The cells of a board
Grid(rs, board) == [i \in 1..Len(board) |-> rs[board[i]]]

\* The object as its methods read it: its cells, and its children objects.
View(hp, rs, id) ==
  [x |-> hp[id].x, y |-> hp[id].y,
   board |-> Grid(rs, hp[id].board),
   left_children |-> [i \in 1..Len(hp[id].left_children) |-> hp[hp[id].left_children[i]]],
   right_children |-> [i \in 1..Len(hp[id].right_children) |-> hp[hp[id].right_children[i]]],
   outcome_class |-> hp[id].outcome_class]

CopyBoard_shallow(rs, board) == [rows |-> rs, board |-> board]

\* line 70 (78): [row[:] for row in self.board], new row lists with the cells
\* of the old ones
CopyBoard(rs, board) ==
  [rows |-> rs \o Grid(rs, board),
   board |-> [i \in 1..Len(board) |-> Len(rs) + i]]

RemoveCell_compare_only(grid, row, col) == grid

\* line 72 (80): child.board[row][col] = '-'
RemoveCell(grid, row, col) == SetCell(grid, row, col, "-")

\* The writes of lines 72-73 (80-81) land in the row lists of the child's board.
StoreGrid(rs, board, grid) ==
  [r \in 1..Len(rs) |->
     IF \E i \in 1..Len(board) : board[i] = r
     THEN grid[CHOOSE i \in 1..Len(board) : board[i] = r]
     ELSE rs[r]]

ChildSteps_add_first == <<"create_tree", "add", "define_outcome_class">>

ChildSteps_no_define == <<"create_tree", "add">>

\* lines 74-76 (82-84): what is done with a new child, in this order
ChildSteps == <<"create_tree", "define_outcome_class", "add">>

Frame(id) == [self |-> id, k |-> 0, pc |-> "left", side |-> "left", step |-> 0, child |-> 0]

Top == stack[Len(stack)]

SetTop(f) == [stack EXCEPT ![Len(stack)] = f]

\* The frame once the current step on its child is done.
AfterStep(f) ==
  IF f.step + 1 > Len(ChildSteps)
  THEN [f EXCEPT !.pc = IF f.side = "left" THEN "right" ELSE "check",
                 !.step = 0, !.child = 0]
  ELSE [f EXCEPT !.step = f.step + 1]

InitBuild ==
  /\ \E g \in RootBoards :
       /\ heap = <<LBSObject(g.x, g.y, [i \in 1..g.y |-> i])>>
       /\ rows = g.board
       /\ before = g.board
  /\ stack = <<>>
  /\ pc = "constructed"
  /\ game = NoGame
  /\ game_copy = NoGame
  /\ gameType = "analyze"
  /\ lastQuery = "none"
  /\ updated = FALSE
  /\ passes = 0
  /\ calls = 0
  /\ first = NoBoard
  /\ result = NoBoard
  /\ queryLeft = FALSE

buildIdle == <<game, game_copy, gameType, lastQuery, updated, passes, calls,
               before, first, result, queryLeft>>

\* line 350: game.create_tree()
MainCreateTree ==
  /\ pc = "constructed"
  /\ pc' = "building"
  /\ stack' = <<Frame(1)>>
  /\ heap' = [heap EXCEPT ![1].creates = @ + 1]
  /\ UNCHANGED <<rows, buildIdle>>

\* lines 70-73 (78-81): the new child of the object of the top frame by the
\* cell the frame is at; the heap, the rows and the frame afterwards.
WithNewChild(side) ==
  LET f == Top
      o == heap[f.self]
      row == RowOf(o, f.k)
      col == ColOf(o, f.k)
      cp == CopyBoard(rows, o.board)
      removed == RemoveCell(Grid(cp.rows, cp.board), row, col)
      settled == drop_blocks(LBS(o.x, o.y, removed)).board
  IN /\ rows' = StoreGrid(cp.rows, cp.board, settled)
     /\ heap' = Append(heap, LBSObject(o.x, o.y, cp.board))
     /\ stack' = SetTop([f EXCEPT !.pc = "child", !.side = side, !.step = 1,
                                  !.child = Len(heap) + 1])

\* lines 69-73
LeftTest ==
  /\ pc = "building"
  /\ Top.pc = "left"
  /\ LET v == View(heap, rows, Top.self)
     IN IF LeftGuard(v, RowOf(v, Top.k), ColOf(v, Top.k))
        THEN WithNewChild("left")
        ELSE /\ stack' = SetTop([Top EXCEPT !.pc = "right"])
             /\ UNCHANGED <<heap, rows>>
  /\ UNCHANGED <<pc, buildIdle>>

\* lines 77-81
RightTest ==
  /\ pc = "building"
  /\ Top.pc = "right"
  /\ LET v == View(heap, rows, Top.self)
     IN IF RightGuard(v, RowOf(v, Top.k), ColOf(v, Top.k))
        THEN WithNewChild("right")
        ELSE /\ stack' = SetTop([Top EXCEPT !.pc = "check"])
             /\ UNCHANGED <<heap, rows>>
  /\ UNCHANGED <<pc, buildIdle>>

\* line 74 (82): child.create_tree()
ChildCreateTree ==
  /\ pc = "building"
  /\ Top.pc = "child"
  /\ ChildSteps[Top.step] = "create_tree"
  /\ stack' = Append(stack, Frame(Top.child))
  /\ heap' = [heap EXCEPT ![Top.child].creates = @ + 1]
  /\ UNCHANGED <<pc, rows, buildIdle>>

\* define_outcome_class on an object of the heap
Classified(id) ==
  [heap EXCEPT ![id].outcome_class =
                  define_outcome_class(View(heap, rows, id)).outcome_class,
               ![id].classifies = @ + 1]

\* line 75 (83): child.define_outcome_class()
ChildDefine ==
  /\ pc = "building"
  /\ Top.pc = "child"
  /\ ChildSteps[Top.step] = "define_outcome_class"
  /\ heap' = Classified(Top.child)
  /\ stack' = SetTop(AfterStep(Top))
  /\ UNCHANGED <<pc, rows, buildIdle>>

\* line 76 (84): self.left_children.add(child), self.right_children.add(child)
ChildAdd ==
  /\ pc = "building"
  /\ Top.pc = "child"
  /\ ChildSteps[Top.step] = "add"
  /\ heap' = IF Top.side = "left"
             THEN [heap EXCEPT ![Top.self].left_children = Append(@, Top.child)]
             ELSE [heap EXCEPT ![Top.self].right_children = Append(@, Top.child)]
  /\ stack' = SetTop(AfterStep(Top))
  /\ UNCHANGED <<pc, rows, buildIdle>>

\* lines 85-86, and the end of the for loops: the call goes on with the next
\* cell or returns to its caller, which goes on after its line 74 (82).
CheckOrReturn ==
  /\ pc = "building"
  /\ Top.pc = "check"
  /\ LET v == View(heap, rows, Top.self)
     IN IF EarlyReturn(v) \/ Top.k + 1 >= v.x * v.y
        THEN IF Len(stack) = 1
             THEN /\ stack' = <<>>
                  /\ pc' = "built"
             ELSE /\ stack' = [SubSeq(stack, 1, Len(stack) - 1)
                                 EXCEPT ![Len(stack) - 1] = AfterStep(stack[Len(stack) - 1])]
                  /\ pc' = pc
        ELSE /\ stack' = SetTop([Top EXCEPT !.pc = "left", !.k = Top.k + 1])
             /\ pc' = pc
  /\ UNCHANGED <<heap, rows, buildIdle>>

\* line 351: game.define_outcome_class()
MainDefine ==
  /\ pc = "built"
  /\ pc' = "classified"
  /\ heap' = Classified(1)
  /\ UNCHANGED <<rows, stack, buildIdle>>

NextBuild ==
  \/ MainCreateTree
  \/ LeftTest
  \/ RightTest
  \/ ChildCreateTree
  \/ ChildDefine
  \/ ChildAdd
  \/ CheckOrReturn
  \/ MainDefine

SpecBuild == InitBuild /\ [][NextBuild]_vars

Objects == 1..Len(heap)

Children(id) == Range(heap[id].left_children) \cup Range(heap[id].right_children)

\* create_tree has been called on the object and has not returned yet
InCall(id) == \E i \in 1..Len(stack) : stack[i].self = id

OutcomeClasses == {"L", "R", "N", "P"}

\* C14: classification is strictly bottom-up: whenever an object is in
\* left_children or right_children of another, its own create_tree has been
\* called and has returned and its define_outcome_class has run, so that its
\* outcome_class is one of L, R, N, P at every evaluation of left_can_win,
\* right_can_win and define_outcome_class that reads it.
C14_BottomUp ==
  \A id \in Objects : \A c \in Children(id) :
    /\ heap[c].creates = 1
    /\ ~InCall(c)
    /\ heap[c].classifies = 1
    /\ heap[c].outcome_class \in OutcomeClasses

\* A call deeper in the tree is about to test a guard of lines 69, 77 or 85
\* on an object that has children already.
C14_Witness ==
  /\ pc = "building"
  /\ Len(stack) >= 2
  /\ Top.pc \in {"left", "right", "check"}
  /\ Children(Top.self) # {}

\* C15: no step of the construction changes a cell of the board of an object
\* that exists already, the row lists of a new child are those of no other
\* object, and the board of the root is after create_tree what it was
\* before, cell for cell.
C15_NoSharedStorage ==
  /\ [][/\ \A id \in Objects :
             Grid(rows', heap'[id].board) = Grid(rows, heap[id].board)
        /\ Len(heap') > Len(heap) =>
             \A id \in Objects :
               Range(heap'[Len(heap')].board) \cap Range(heap[id].board) = {}]_vars
  /\ [](pc \in {"built", "classified"} => Grid(rows, heap[1].board) = before)

\* create_tree has returned on a root with children and grandchildren, whose
\* boards differ from the root's.
C15_Witness ==
  /\ pc = "built"
  /\ Len(heap) >= 3
  /\ \E c \in Children(1) :
       /\ Children(c) # {}
       /\ Grid(rows, heap[c].board) # before

\* C18: within one analysis create_tree and define_outcome_class are each
\* called at most once on an object, define_outcome_class only after
\* create_tree has returned, both exactly once on every object when the
\* analysis is over, and an outcome_class once set is never changed.
C18_ExactlyOnce ==
  /\ [](\A id \in Objects :
          /\ heap[id].creates <= 1
          /\ heap[id].classifies <= 1
          /\ InCall(id) => heap[id].creates = 1
          /\ heap[id].classifies = 1 => heap[id].creates = 1 /\ ~InCall(id)
          /\ heap[id].outcome_class # None <=> heap[id].classifies = 1)
  /\ [](pc = "classified" =>
          \A id \in Objects : heap[id].creates = 1 /\ heap[id].classifies = 1)
  /\ [][\A id \in Objects :
          heap[id].outcome_class # None =>
            heap'[id].outcome_class = heap[id].outcome_class]_vars

\* The analysis of a root with children and grandchildren is over.
C18_Witness ==
  /\ pc = "classified"
  /\ \E c \in Children(1) : Children(c) # {}

\* The non-empty cells of the board of an object
CellCount(id) == Cardinality(NonEmptyCells(Grid(rows, heap[id].board)))

\* How far a call of create_tree has come: the cell it is at, and the line
\* it is at for this cell.
FrameRank(f) ==
  LET n == Len(ChildSteps)
      line == CASE f.pc = "left" -> 0
                [] f.pc = "child" /\ f.side = "left" -> f.step
                [] f.pc = "right" -> n + 1
                [] f.pc = "child" /\ f.side = "right" -> n + 1 + f.step
                [] f.pc = "check" -> 2 * n + 2
  IN f.k * (2 * n + 3) + line

Ranks(st) == [i \in 1..Len(st) |-> FrameRank(st[i])]

\* The lexicographic order of sequences of numbers, a sequence coming before
\* its extensions.
LexLess(a, b) ==
  \E i \in 1..Len(b) :
    /\ i <= Len(a) + 1
    /\ \A j \in 1..(i - 1) : a[j] = b[j]
    /\ i = Len(a) + 1 \/ a[i] < b[i]

MainRank(p) ==
  CASE p = "constructed" -> 0
    [] p = "building" -> 1
    [] p = "built" -> 2
    [] p = "classified" -> 3

\* The guards of the steps of the analysis: one of them can be taken.
CanStep ==
  \/ pc \in {"constructed", "built"}
  \/ /\ pc = "building"
     /\ stack # <<>>
     /\ \/ Top.pc \in {"left", "right", "check"}
        \/ /\ Top.pc = "child"
           /\ Top.step \in 1..Len(ChildSteps)
           /\ ChildSteps[Top.step] \in {"create_tree", "define_outcome_class", "add"}

\* C19: every child, added to its parent or not yet, has strictly fewer
\* non-empty cells than its parent, and the calls of create_tree in progress
\* are never nested deeper than the number of non-empty cells of the root
\* board.  The analysis terminates: each call stays within the cells of its
\* board, every step moves the program forward in a bounded order (main's
\* line, then the calls in progress from the outermost to the innermost, each
\* by its cell and line), and a step is possible until the analysis is over.
C19_Terminates ==
  /\ [](/\ \A id \in Objects : \A c \in Children(id) : CellCount(c) < CellCount(id)
        /\ \A i \in 1..Len(stack) :
             /\ stack[i].child # 0 =>
                  CellCount(stack[i].child) < CellCount(stack[i].self)
             /\ stack[i].k < heap[stack[i].self].x * heap[stack[i].self].y
        /\ Len(stack) <= Cardinality(NonEmptyCells(before)) + 1
        /\ pc # "classified" => CanStep)
  /\ [][\/ MainRank(pc') > MainRank(pc)
        \/ pc' = pc /\ LexLess(Ranks(stack), Ranks(stack'))]_vars

\* The calls are nested as deep as the bound allows, on a root of three
\* non-empty cells at least.
C19_Witness ==
  /\ pc = "building"
  /\ Cardinality(NonEmptyCells(before)) >= 3
  /\ Len(stack) = Cardinality(NonEmptyCells(before)) + 1

(***************************************************************************)
(* drop_blocks pass by pass: one call on a board drawn from the boards of  *)
(* at most MaxGravityCells cells.  `passes` counts the executions of the   *)
(* body of the while loop, `before` is the board the call was made on.     *)
(***************************************************************************)

GravityBoards ==
  UNION {{LBS(d[1], d[2], b) : b \in BoardsOf(d[1], d[2])} : d \in Dims(MaxGravityCells)}

\* No call makes more passes than this; the guard of DropPass stops a loop
\* that would run on.
PassCap(self) == self.x * self.y + 1

InitDrop ==
  /\ game \in GravityBoards
  /\ pc = "call"
  /\ before = game.board
  /\ updated = FALSE
  /\ passes = 0
  /\ calls = 0
  /\ first = NoBoard
  /\ NoBuild
  /\ game_copy = NoGame
  /\ gameType = "none"
  /\ lastQuery = "none"

\* line 29
DropEnter ==
  /\ pc = "call"
  /\ pc' = "while"
  /\ updated' = TRUE
  /\ passes' = 0
  /\ calls' = calls + 1
  /\ UNCHANGED <<game, game_copy, gameType, lastQuery, before, first, buildVars>>

\* lines 30-36, one execution of the loop body
DropPass ==
  /\ pc = "while"
  /\ updated
  /\ passes < PassCap(game)
  /\ LET p == ScanPass(game)
     IN /\ game' = p.self
        /\ updated' = p.updated
  /\ passes' = passes + 1
  /\ UNCHANGED <<pc, game_copy, gameType, lastQuery, calls, before, first, buildVars>>

\* line 30, the loop test failing: the call returns
DropReturn ==
  /\ pc = "while"
  /\ ~ updated
  /\ pc' = "returned"
  /\ first' = game.board
  /\ UNCHANGED <<game, game_copy, gameType, lastQuery, updated, passes, calls, before, buildVars>>

NextDrop == DropEnter \/ DropPass \/ DropReturn

SpecDrop == InitDrop /\ [][NextDrop]_vars

(***************************************************************************)
(* drop_blocks called twice in a row on the same position.                 *)
(***************************************************************************)

InitTwice ==
  /\ game \in GravityBoards
  /\ pc = "call"
  /\ before = game.board
  /\ updated = FALSE
  /\ passes = 0
  /\ calls = 0
  /\ first = NoBoard
  /\ NoBuild
  /\ game_copy = NoGame
  /\ gameType = "none"
  /\ lastQuery = "none"

CallDrop ==
  /\ pc = "call"
  /\ calls = 0
  /\ game' = drop_blocks(game)
  /\ first' = game'.board
  /\ calls' = 1
  /\ UNCHANGED <<pc, game_copy, gameType, lastQuery, updated, passes, before, buildVars>>

CallDropAgain ==
  /\ pc = "call"
  /\ calls = 1
  /\ game' = drop_blocks(game)
  /\ calls' = 2
  /\ pc' = "returned"
  /\ UNCHANGED <<game_copy, gameType, lastQuery, updated, passes, before, first, buildVars>>

NextTwice == CallDrop \/ CallDropAgain

SpecTwice == InitTwice /\ [][NextTwice]_vars

\* Every cell left on the board is held by a full row or a full column.
Settled(board) ==
  \A rc \in NonEmptyCells(board) : RowFull(board, rc[1]) \/ ColFull(board, rc[2])

\* C5: when drop_blocks returns, every non-empty cell of the board lies in a
\* completely non-empty row or in a completely non-empty column.
C5_GravityFixpoint == (pc = "returned") => Settled(game.board)

\* A call that cleared cells has returned, leaving cells held by a full line.
C5_Witness ==
  /\ pc = "returned"
  /\ NonEmptyCells(game.board) # {}
  /\ NonEmptyCells(game.board) # NonEmptyCells(before)

\* C6: drop_blocks makes at most width * height passes of its while loop, the
\* last pass (the one that changes nothing) included, and then returns: while
\* the loop is still to run again, fewer than width * height passes were made.
C6_PassBound ==
  /\ passes <= game.x * game.y
  /\ (pc = "while" /\ updated) => passes < game.x * game.y

\* A call that needed a second pass has returned.
C6_Witness == pc = "returned" /\ passes = 2 /\ game.board # before

\* C7: a second drop_blocks right after a first one leaves the board as the
\* first one left it.
C7_GravityIdempotent == (calls = 2) => game.board = first

\* The second call has returned, after a first call that cleared cells and
\* left others.
C7_Witness ==
  /\ calls = 2
  /\ first # before
  /\ NonEmptyCells(first) # {}

\* C8: drop_blocks only clears cells: at every point of the call, a cell that
\* is not empty holds the value it held before the call (so an empty cell
\* stays empty and the non-empty cells are a subset of those before).
C8_GravityMonotone ==
  \A row \in 1..game.y : \A col \in 1..game.x :
    game.board[row][col] # "-" => game.board[row][col] = before[row][col]

\* A call has returned with some cells cleared and some kept.
C8_Witness ==
  /\ pc = "returned"
  /\ \E rc \in NonEmptyCells(before) : game.board[rc[1]][rc[2]] = "-"
  /\ \E rc \in NonEmptyCells(before) : game.board[rc[1]][rc[2]] = before[rc[1]][rc[2]]

\* The cells of `board` that are in `keep`, the others emptied.
SubBoard(board, keep) ==
  [r \in 1..Len(board) |->
     [c \in 1..Len(board[1]) |-> IF <<r, c>> \in keep THEN board[r][c] ELSE "-"]]

\* The largest sub-board of `board` that is settled: the cells of all its
\* settled sub-boards together.
LargestSettled(board) ==
  SubBoard(board,
           UNION {keep \in SUBSET NonEmptyCells(board) : Settled(SubBoard(board, keep))})

\* A pass of gravity computed from a snapshot: every cell is judged on the
\* board as it was when the pass began.
SnapshotPass(board) ==
  SubBoard(board,
           {rc \in NonEmptyCells(board) : RowFull(board, rc[1]) \/ ColFull(board, rc[2])})

RECURSIVE SnapshotGravity(_)
SnapshotGravity(board) ==
  LET next == SnapshotPass(board)
  IN IF next = board THEN board ELSE SnapshotGravity(next)

\* C20: the board drop_blocks returns is the largest sub-board of its input
\* in which every non-empty cell lies in a full row or a full column, and it
\* is the board a gravity that computes each pass from a snapshot returns.
C20_GravityOrderIndependent ==
  (pc = "returned") =>
    /\ game.board = LargestSettled(before)
    /\ game.board = SnapshotGravity(before)

\* A call has returned on a 2x3 or 3x2 board, having cleared some cells in a
\* pass in which other cells stayed.
C20_Witness ==
  /\ pc = "returned"
  /\ game.x * game.y = 6
  /\ game.x > 1
  /\ game.y > 1
  /\ Cardinality(NonEmptyCells(before)) - Cardinality(NonEmptyCells(game.board)) >= 2
  /\ NonEmptyCells(game.board) # {}

====
